---- MODULE Spec2Model ----
(***************************************************************************)
(* A model of function-go-templating's fn.go: the RunFunction pipeline     *)
(* (input, template source, parse, options, request map, execute, decode)  *)
(* and the helpers convertToMap, safeApplyTemplateOptions, moveToNextDoc   *)
(* and getYamlErrorContextFromErr.                                         *)
(*                                                                         *)
(* Three specifications share the variables:                               *)
(*   Spec     one run of RunFunction, stage by stage;                      *)
(*   SpecDoc  the document cursor: moveToNextDoc applied repeatedly, then  *)
(*            getYamlErrorContextFromErr for the document the cursor is at;*)
(*   SpecLoc  getYamlErrorContextFromErr on arbitrary inputs.              *)
(***************************************************************************)
EXTENDS Integers, Sequences, FiniteSets, TLC

VARIABLES
    pc,        \* RunFunction: the stage about to run, "done" or "panicked"
    req,       \* RunFunction: the request
    in,        \* RunFunction: the GoTemplate input (in.Options)
    tmpl,      \* RunFunction: the compiled template
    reqMap,    \* RunFunction: the map convertToMap returned
    data,      \* RunFunction: the rendered manifests, a sequence of documents
    rsp,       \* RunFunction: the response
    retErr,    \* RunFunction: the error returned beside rsp
    trace,     \* RunFunction: the stages run so far, in order
    decoded,   \* RunFunction: indexes of the documents Decode was called for
    exit,      \* RunFunction: "none", the stage whose error return was taken, or "ok"
    lines,     \* helpers: the rendered text split into lines
    origin,    \* helpers: the cursor the caller started from
    cursor,    \* helpers: the current document-start cursor
    prev,      \* helpers: the cursor before the last moveToNextDoc
    moved,     \* helpers: how often moveToNextDoc was applied
    errText,   \* helpers: the error text handed to getYamlErrorContextFromErr
    ctx,       \* helpers: the YamlErrorContext returned
    hpc        \* helpers: "idle", "located", "panicked"

runVars == <<pc, req, in, tmpl, reqMap, data, rsp, retErr, trace, decoded, exit>>
helpVars == <<lines, origin, cursor, prev, moved, errText, ctx, hpc>>
vars == <<pc, req, in, tmpl, reqMap, data, rsp, retErr, trace, decoded, exit,
          lines, origin, cursor, prev, moved, errText, ctx, hpc>>

(***************************************************************************)
(* Bounds.                                                                 *)
(***************************************************************************)
MaxDocs == 2
MaxOpts == 2
MaxLines == 4

(***************************************************************************)
(* Constants of fn.go.                                                     *)
(***************************************************************************)
annotationKeyCompositionResourceName == "gotemplating.fn.crossplane.io/composition-resource-name"
annotationKeyReady == "gotemplating.fn.crossplane.io/ready"

\* The context strings the stages wrap their error in.
LabelInput == "cannot get Function input from"
LabelSource == "invalid function input"
LabelParse == "invalid function input: cannot parse the provided templates"
LabelOptions == "cannot apply template options"
LabelConvert == "cannot convert request to map"
LabelExecute == "cannot execute template"
LabelDecode == "cannot decode manifest"

\* Sequences of length at most n over S.
SeqUpTo(S, n) == UNION {[1..k -> S] : k \in 0..n}

(***************************************************************************)
(* The request. protojson leaves unpopulated fields out of the JSON, so an *)
(* empty resources map ("none") is a key the generic map lacks.            *)
(***************************************************************************)
ResourceValues == {"none", "A", "B"}

Requests ==
    [extraResources : ResourceValues,
     requiredResources : ResourceValues,
     hasDesired : BOOLEAN,
     marshals : BOOLEAN]

\* protojson.Marshal followed by json.Unmarshal: the generic map, a function
\* from the keys present to their values.
jsonMap(r) ==
    LET keys == {k \in {"extraResources", "requiredResources"} : r[k] # "none"}
                \cup {"meta"}
    IN [k \in keys |-> IF k = "meta" THEN "tag" ELSE r[k]]

\* A variant that copies the legacy key unconditionally.
convertToMapOverwrites(mReq) ==
    IF "requiredResources" \in DOMAIN mReq
    THEN [k \in DOMAIN mReq \cup {"extraResources"} |->
            IF k = "extraResources" THEN mReq["requiredResources"] ELSE mReq[k]]
    ELSE mReq

\* convertToMap, after the marshal/unmarshal round trip succeeded.
convertToMap(mReq) ==
    IF "extraResources" \notin DOMAIN mReq
    THEN IF "requiredResources" \in DOMAIN mReq
         THEN [k \in DOMAIN mReq \cup {"extraResources"} |->
                 IF k = "extraResources" THEN mReq["requiredResources"] ELSE mReq[k]]
         ELSE mReq
    ELSE mReq

(***************************************************************************)
(* Template options. text/template's Option panics on an empty or unknown  *)
(* option string and otherwise sets the missingkey behaviour.              *)
(***************************************************************************)
OptionNames == {"missingkey=error", "missingkey=zero", "bogus", ""}
OptionLists == SeqUpTo(OptionNames, MaxOpts)

RECURSIVE TemplateOption(_, _)
\* templ.Option(options...): [panic: <<>> or <<value>>, missingkey].
TemplateOption(options, missingkey) ==
    IF options = <<>> THEN [panic |-> <<>>, missingkey |-> missingkey]
    ELSE LET s == Head(options) IN
         IF s = "" THEN [panic |-> <<"empty option string">>, missingkey |-> missingkey]
         ELSE IF s = "missingkey=error" THEN TemplateOption(Tail(options), "error")
         ELSE IF s = "missingkey=zero" THEN TemplateOption(Tail(options), "zero")
         ELSE [panic |-> <<"unrecognized option: ", s>>, missingkey |-> missingkey]

\* A variant without the deferred recover: the panic leaves the function.
safeApplyTemplateOptionsNoRecover(missingkey, options) ==
    LET r == TemplateOption(options, missingkey) IN
    [escaped |-> r.panic # <<>>, err |-> <<>>, missingkey |-> r.missingkey]

\* safeApplyTemplateOptions: err is <<>> for nil, else <<text, captured value>>.
safeApplyTemplateOptions(missingkey, options) ==
    LET r == TemplateOption(options, missingkey) IN
    [escaped |-> FALSE,
     err |-> IF r.panic # <<>>
             THEN <<"panic occurred while applying template options: ", r.panic>>
             ELSE <<>>,
     missingkey |-> r.missingkey]

(***************************************************************************)
(* Rendered manifests: a sequence of documents. A document is malformed    *)
(* YAML ("bad"), empty ("null": it decodes to JSON null) or a mapping      *)
(* ("map"). A mapping is a manifest, whose metadata may carry the two      *)
(* annotations, and it may hold keys that are fields of the response:      *)
(* desired (resources, or a value of the wrong type) and results.          *)
(***************************************************************************)
Doc(kind, annotations, desired, results) ==
    [kind |-> kind, annotations |-> annotations, desired |-> desired, results |-> results]

Documents ==
    {Doc("bad", {}, "absent", "absent"),
     Doc("null", {}, "absent", "absent"),
     Doc("map", {}, "absent", "absent"),
     Doc("map", {annotationKeyReady}, "absent", "absent"),
     Doc("map", {annotationKeyReady, annotationKeyCompositionResourceName}, "absent", "absent"),
     Doc("map", {}, "resources", "absent"),
     Doc("map", {}, "typeerror", "absent"),
     Doc("map", {}, "typeerror", "fatal"),
     Doc("map", {}, "absent", "fatal")}

RenderedOutputs == SeqUpTo(Documents, MaxDocs)

\* A desired resource: doc is the index of the document it was decoded from,
\* 0 for one the request already held.
Resource(name, ready, annotations, doc) ==
    [name |-> name, ready |-> ready, annotations |-> annotations, doc |-> doc]

\* response.To(req, ttl): the desired state is the request's, no results.
ResponseTo(r) ==
    [nil |-> FALSE,
     desiredNil |-> ~r.hasDesired,
     resources |-> IF r.hasDesired THEN {Resource("observed", "UNSPECIFIED", {}, 0)} ELSE {},
     results |-> <<>>]

\* response.Fatal(rsp, errors.Wrap(err, label)).
Fatal(r, label, cause) ==
    [r EXCEPT !.results = Append(@, [severity |-> "FATAL", message |-> <<label, cause>>])]

\* decoder.Decode(&rsp) on one document: [err, rsp]. A mapping is unmarshalled
\* into the response itself: keys that are no field of the response (a
\* manifest's apiVersion, kind, metadata, spec) are dropped, results replaces
\* rsp.Results, desired.resources is merged into rsp.Desired, and a value of
\* the wrong type is reported after the other keys were stored.
DecodeInto(r, doc, i) ==
    IF doc.kind = "bad" THEN [err |-> <<"error converting YAML to JSON">>, rsp |-> r]
    ELSE IF doc.kind = "null" THEN [err |-> <<>>, rsp |-> [r EXCEPT !.nil = TRUE]]
    ELSE LET r1 == IF doc.results = "fatal"
                   THEN [r EXCEPT !.results =
                           <<[severity |-> "FATAL", message |-> <<"from document", <<>>>>]>>]
                   ELSE r
             r2 == IF doc.desired = "resources"
                   THEN [r1 EXCEPT !.desiredNil = FALSE,
                                   !.resources = @ \cup
                                      {Resource("rendered", "UNSPECIFIED", {}, i)}]
                   ELSE r1
         IN [err |-> IF doc.desired = "typeerror"
                     THEN <<"error unmarshaling JSON">> ELSE <<>>,
             rsp |-> r2]

(***************************************************************************)
(* Text. A line and an error text are sequences of characters; the fixed   *)
(* phrase of the YAML error is one character of the model.                 *)
(***************************************************************************)
Phrase == "error converting YAML to JSON: yaml: line"
Separator == <<"-", "-", "-">>
DigitChars == <<"0", "1", "2", "3", "4", "5", "6", "7", "8", "9">>
IsDigit(c) == \E d \in 1..Len(DigitChars) : DigitChars[d] = c
DigitValue(c) == (CHOOSE d \in 1..Len(DigitChars) : DigitChars[d] = c) - 1

RECURSIVE TrimLeft(_)
TrimLeft(s) == IF s # <<>> /\ Head(s) = " " THEN TrimLeft(Tail(s)) ELSE s

RECURSIVE TrimRight(_)
TrimRight(s) ==
    IF s # <<>> /\ s[Len(s)] = " " THEN TrimRight(SubSeq(s, 1, Len(s) - 1)) ELSE s

\* strings.TrimSpace.
TrimSpace(s) == TrimRight(TrimLeft(s))

RECURSIVE ParseDigits(_, _)
\* strconv.ParseInt on a run of decimal digits.
ParseDigits(s, acc) ==
    IF s = <<>> THEN acc ELSE ParseDigits(Tail(s), 10 * acc + DigitValue(Head(s)))

RECURSIVE FormatNat(_)
FormatNat(n) ==
    IF n < 10 THEN <<DigitChars[n + 1]>>
    ELSE FormatNat(n \div 10) \o <<DigitChars[(n % 10) + 1]>>

\* fmt's %d of an int.
FormatInt(n) == IF n < 0 THEN <<"-">> \o FormatNat(-n) ELSE FormatNat(n)

RECURSIVE DigitRun(_)
\* The longest prefix of s made of digits.
DigitRun(s) ==
    IF s # <<>> /\ IsDigit(Head(s)) THEN <<Head(s)>> \o DigitRun(Tail(s)) ELSE <<>>

\* fmt.Sscanf(text, "error converting YAML to JSON: yaml: line %d:", &relLine):
\* the phrase, the format's space (one or more spaces of the input), an
\* optional sign, a run of digits, and the colon. ok is scanErr == nil && n == 1.
Sscanf(text) ==
    LET fail == [ok |-> FALSE, relLine |-> 0] IN
    IF text = <<>> \/ Head(text) # Phrase THEN fail
    ELSE LET t1 == Tail(text) IN
         IF t1 = <<>> \/ Head(t1) # " " THEN fail
         ELSE LET t2 == TrimLeft(t1)
                  neg == t2 # <<>> /\ Head(t2) = "-"
                  t3 == IF t2 # <<>> /\ Head(t2) \in {"+", "-"} THEN Tail(t2) ELSE t2
                  ds == DigitRun(t3)
                  t4 == SubSeq(t3, Len(ds) + 1, Len(t3))
              IN IF ds = <<>> THEN fail
                 ELSE IF t4 = <<>> \/ Head(t4) # ":" THEN fail
                 ELSE [ok |-> TRUE,
                       relLine |-> IF neg THEN -ParseDigits(ds, 0) ELSE ParseDigits(ds, 0)]

\* strings.Index: the 0-based index of the first occurrence of p in s, or -1.
Index(s, p) ==
    LET at == {i \in 0..(Len(s) - Len(p)) : SubSeq(s, i + 1, i + Len(p)) = p}
    IN IF at = {} THEN -1 ELSE CHOOSE i \in at : \A j \in at : i <= j

ZeroContext == [RelLine |-> 0, AbsLine |-> 0, Message |-> <<>>, Context |-> <<>>]

\* lines[i] of Go, i 0-based: an index out of range panics.
ReadLine(ls, i) ==
    IF i >= 0 /\ i < Len(ls) THEN [panic |-> FALSE, line |-> ls[i + 1]]
    ELSE [panic |-> TRUE, line |-> <<>>]

\* The message after the matched prefix (the first if block).
ErrMsg(errStr, relLine) ==
    LET prefix == <<Phrase, " ">> \o FormatInt(relLine) \o <<":">>
        idx == Index(errStr, prefix)
    IN IF idx # -1 THEN TrimSpace(SubSeq(errStr, idx + Len(prefix) + 1, Len(errStr)))
       ELSE <<>>

\* A variant whose bounds check lacks absLine-1 >= 0.
getYamlErrorContextFromErrNoLowerBound(err, startLine, ls) ==
    LET sc == Sscanf(err)
        absLine == startLine + sc.relLine
        rd == ReadLine(ls, absLine - 1)
    IN IF sc.ok /\ absLine - 1 < Len(ls)
       THEN [panic |-> rd.panic,
             value |-> [RelLine |-> sc.relLine, AbsLine |-> absLine,
                        Message |-> ErrMsg(err, sc.relLine), Context |-> rd.line]]
       ELSE [panic |-> FALSE, value |-> ZeroContext]

\* A variant that takes startLine for the document's first line.
getYamlErrorContextFromErrFirstLine(err, startLine, ls) ==
    LET sc == Sscanf(err)
        absLine == startLine + sc.relLine - 1
        rd == ReadLine(ls, absLine - 1)
    IN IF sc.ok /\ absLine - 1 < Len(ls) /\ absLine - 1 >= 0
       THEN [panic |-> rd.panic,
             value |-> [RelLine |-> sc.relLine, AbsLine |-> absLine,
                        Message |-> ErrMsg(err, sc.relLine), Context |-> rd.line]]
       ELSE [panic |-> FALSE, value |-> ZeroContext]

\* getYamlErrorContextFromErr: [panic, value].
getYamlErrorContextFromErr(err, startLine, ls) ==
    LET sc == Sscanf(err)
        absLine == startLine + sc.relLine
        rd == ReadLine(ls, absLine - 1)
    IN IF sc.ok /\ absLine - 1 < Len(ls) /\ absLine - 1 >= 0
       THEN [panic |-> rd.panic,
             value |-> [RelLine |-> sc.relLine, AbsLine |-> absLine,
                        Message |-> ErrMsg(err, sc.relLine), Context |-> rd.line]]
       ELSE [panic |-> FALSE, value |-> ZeroContext]

RECURSIVE moveLoop(_, _, _)
\* The loop of moveToNextDoc from i on; lines[i-1] with i-1 < 0 panics.
moveLoop(ls, startLine, i) ==
    IF i > Len(ls) THEN [panic |-> FALSE, value |-> startLine]
    ELSE LET rd == ReadLine(ls, i - 1) IN
         IF rd.panic THEN [panic |-> TRUE, value |-> startLine]
         ELSE IF TrimSpace(rd.line) = Separator /\ i > startLine
              THEN [panic |-> FALSE, value |-> i]
              ELSE moveLoop(ls, startLine, i + 1)

\* A variant that returns the line after the separator.
moveToNextDocPastSeparator(ls, startLine) ==
    LET r == moveLoop(ls, startLine, startLine)
    IN IF r.value # startLine THEN [r EXCEPT !.value = @ + 1] ELSE r

\* moveToNextDoc: [panic, value].
moveToNextDoc(ls, startLine) == moveLoop(ls, startLine, startLine)

(***************************************************************************)
(* Inputs of the helpers.                                                  *)
(***************************************************************************)
LineKinds == {<<>>, <<"a">>, <<"-", "-", "-">>, <<" ", "-", "-", "-", " ">>}
LineLists == SeqUpTo(LineKinds, MaxLines)
StartLines == (-1)..(MaxLines + 1)

ErrTexts ==
    {<<>>, <<"m">>} \cup
    {<<Phrase>> \o gap \o sign \o digits \o colon \o tail :
        gap \in {<<>>, <<" ">>, <<" ", " ">>},
        sign \in {<<>>, <<"-">>, <<"+">>},
        digits \in {<<>>, <<"1">>, <<"2">>, <<"0", "3">>},
        colon \in {<<>>, <<":">>},
        tail \in {<<>>, <<" ", "m", " ">>}}

\* The error the parser gives for line r of a document.
ParserError(r) == <<Phrase, " ">> \o FormatInt(r) \o <<":", " ", "m">>

HelpersIdle ==
    /\ lines = <<>>
    /\ origin = 1
    /\ cursor = 1
    /\ prev = 1
    /\ moved = 0
    /\ errText = <<>>
    /\ ctx = ZeroContext
    /\ hpc = "idle"

(***************************************************************************)
(* RunFunction, one action per stage. The order of the stages is the order *)
(* of the statements.                                                      *)
(***************************************************************************)
\* A variant that builds the request map before the template is compiled.
AfterContextFirst(stage, optionsSet) ==
    CASE stage = "input" -> "source"
      [] stage = "source" -> "convert"
      [] stage = "convert" -> "parse"
      [] stage = "parse" -> IF optionsSet THEN "options" ELSE "execute"
      [] stage = "options" -> "execute"
      [] stage = "execute" -> "decode"
      [] OTHER -> "done"

\* The stage that follows a stage that succeeded.
After(stage, optionsSet) ==
    CASE stage = "input" -> "source"
      [] stage = "source" -> "parse"
      [] stage = "parse" -> IF optionsSet THEN "options" ELSE "convert"
      [] stage = "options" -> "convert"
      [] stage = "convert" -> "execute"
      [] stage = "execute" -> "decode"
      [] OTHER -> "done"

NoInput == [optionsSet |-> FALSE, options |-> <<>>]
NoTemplate == [parsed |-> FALSE, missingkey |-> "default"]
NilResponse == [nil |-> TRUE, desiredNil |-> TRUE, resources |-> {}, results |-> <<>>]
NoMap == [k \in {} |-> "none"]

\* return rsp, nil after response.Fatal.
FailStage(stage, label, cause) ==
    /\ rsp' = Fatal(rsp, label, cause)
    /\ retErr' = <<>>
    /\ exit' = stage
    /\ pc' = "done"

Init ==
    /\ pc = "input"
    /\ req \in Requests
    /\ in = NoInput
    /\ tmpl = NoTemplate
    /\ reqMap = NoMap
    /\ data = <<>>
    /\ rsp = NilResponse
    /\ retErr = <<>>
    /\ trace = <<>>
    /\ decoded = {}
    /\ exit = "none"
    /\ HelpersIdle

\* response.To and request.GetInput.
GetInput ==
    /\ pc = "input"
    /\ trace' = Append(trace, "input")
    /\ \/ /\ rsp' = Fatal(ResponseTo(req), LabelInput, <<"input">>)
          /\ retErr' = <<>>
          /\ exit' = "input"
          /\ pc' = "done"
          /\ UNCHANGED in
       \/ /\ \E o \in OptionLists, set \in BOOLEAN :
                in' = [optionsSet |-> set, options |-> IF set THEN o ELSE <<>>]
          /\ rsp' = ResponseTo(req)
          /\ pc' = After("input", FALSE)
          /\ UNCHANGED <<retErr, exit>>
    /\ UNCHANGED <<req, tmpl, reqMap, data, decoded, helpVars>>

\* NewTemplateSourceGetter.
GetSource ==
    /\ pc = "source"
    /\ trace' = Append(trace, "source")
    /\ \/ FailStage("source", LabelSource, <<"source">>)
       \/ /\ pc' = After("source", in.optionsSet)
          /\ UNCHANGED <<rsp, retErr, exit>>
    /\ UNCHANGED <<req, in, tmpl, reqMap, data, decoded, helpVars>>

\* GetNewTemplateWithFunctionMaps(in.Delims).Parse(tg.GetTemplates()).
Parse ==
    /\ pc = "parse"
    /\ trace' = Append(trace, "parse")
    /\ \/ /\ FailStage("parse", LabelParse, <<"parse">>)
          /\ UNCHANGED tmpl
       \/ /\ tmpl' = [parsed |-> TRUE, missingkey |-> "default"]
          /\ pc' = After("parse", in.optionsSet)
          /\ UNCHANGED <<rsp, retErr, exit>>
    /\ UNCHANGED <<req, in, reqMap, data, decoded, helpVars>>

\* if in.Options != nil { safeApplyTemplateOptions(tmpl, *in.Options) }.
ApplyOptions ==
    /\ pc = "options"
    /\ trace' = Append(trace, "options")
    /\ LET r == safeApplyTemplateOptions(tmpl.missingkey, in.options) IN
       /\ tmpl' = [tmpl EXCEPT !.missingkey = r.missingkey]
       /\ IF r.escaped
          THEN /\ pc' = "panicked"
               /\ UNCHANGED <<rsp, retErr, exit>>
          ELSE IF r.err # <<>>
          THEN FailStage("options", LabelOptions, r.err)
          ELSE /\ pc' = After("options", TRUE)
               /\ UNCHANGED <<rsp, retErr, exit>>
    /\ UNCHANGED <<req, in, reqMap, data, decoded, helpVars>>

\* convertToMap(req).
Convert ==
    /\ pc = "convert"
    /\ trace' = Append(trace, "convert")
    /\ IF ~req.marshals
       THEN /\ FailStage("convert", LabelConvert,
                         <<"cannot marshal request from proto to json">>)
            /\ UNCHANGED reqMap
       ELSE /\ reqMap' = convertToMap(jsonMap(req))
            /\ pc' = After("convert", in.optionsSet)
            /\ UNCHANGED <<rsp, retErr, exit>>
    /\ UNCHANGED <<req, in, tmpl, data, decoded, helpVars>>

\* tmpl.Execute(buf, reqMap).
Execute ==
    /\ pc = "execute"
    /\ trace' = Append(trace, "execute")
    /\ \/ /\ FailStage("execute", LabelExecute, <<"execute">>)
          /\ UNCHANGED data
       \/ /\ data' \in RenderedOutputs
          /\ pc' = After("execute", in.optionsSet)
          /\ UNCHANGED <<rsp, retErr, exit>>
    /\ UNCHANGED <<req, in, tmpl, reqMap, decoded, helpVars>>

\* The decoder is created, Decode(&rsp) is called once, and the count of
\* desired resources is logged: len(rsp.Desired.Resources) dereferences rsp
\* and rsp.Desired.
Decode ==
    /\ pc = "decode"
    /\ trace' = Append(trace, "decode")
    /\ IF data = <<>>
       THEN /\ FailStage("decode", LabelDecode, <<"EOF">>)
            /\ UNCHANGED decoded
       ELSE LET d == DecodeInto(rsp, data[1], 1) IN
            /\ decoded' = decoded \cup {1}
            /\ IF d.err # <<>>
               THEN /\ rsp' = Fatal(d.rsp, LabelDecode, d.err)
                    /\ retErr' = <<>>
                    /\ exit' = "decode"
                    /\ pc' = "done"
               ELSE /\ rsp' = d.rsp
                    /\ IF d.rsp.nil \/ d.rsp.desiredNil
                       THEN /\ pc' = "panicked"
                            /\ UNCHANGED <<retErr, exit>>
                       ELSE /\ pc' = After("decode", in.optionsSet)
                            /\ retErr' = <<>>
                            /\ exit' = "ok"
    /\ UNCHANGED <<req, in, tmpl, reqMap, data, helpVars>>

Next ==
    \/ GetInput
    \/ GetSource
    \/ Parse
    \/ ApplyOptions
    \/ Convert
    \/ Execute
    \/ Decode

Spec == Init /\ [][Next]_vars

(***************************************************************************)
(* Properties of RunFunction (specification Spec).                         *)
(***************************************************************************)
Ran(stage) == \E i \in 1..Len(trace) : trace[i] = stage
LastStage == IF trace = <<>> THEN "none" ELSE trace[Len(trace)]
FatalResults(r) == {i \in 1..Len(r.results) : r.results[i].severity = "FATAL"}
StageLabel(stage) ==
    CASE stage = "input" -> LabelInput
      [] stage = "source" -> LabelSource
      [] stage = "parse" -> LabelParse
      [] stage = "options" -> LabelOptions
      [] stage = "convert" -> LabelConvert
      [] stage = "execute" -> LabelExecute
      [] OTHER -> LabelDecode
ControlKeys == {annotationKeyReady, annotationKeyCompositionResourceName}

\* C1: once convertToMap has returned a map, a request map that holds
\* requiredResources and lacks extraResources has gained extraResources equal
\* to requiredResources, and a request map that holds extraResources keeps
\* that value whatever requiredResources is; no other key changes.
C1_LegacyKeyCopied ==
    (Ran("convert") /\ exit # "convert") =>
        LET m == jsonMap(req) IN
        /\ ("requiredResources" \in DOMAIN m /\ "extraResources" \notin DOMAIN m)
              => /\ "extraResources" \in DOMAIN reqMap
                 /\ reqMap["extraResources"] = m["requiredResources"]
        /\ "extraResources" \in DOMAIN m
              => reqMap["extraResources"] = m["extraResources"]
        /\ \A k \in DOMAIN m : k \in DOMAIN reqMap /\ (k # "extraResources" => reqMap[k] = m[k])

\* C1 witness: a request with only the legacy key was converted.
C1_Witness ==
    /\ Ran("convert") /\ exit # "convert"
    /\ req.requiredResources = "A" /\ req.extraResources = "none"
    /\ reqMap["extraResources"] = "A"

\* C2: whatever the option names, a panic of the option-setting call never
\* leaves safeApplyTemplateOptions: when the call panics RunFunction returns
\* the response with one fatal result "cannot apply template options" that
\* carries the captured panic value, and when it does not panic the error is
\* nil and the run goes on.
C2_OptionPanicContained ==
    /\ pc = "panicked" => LastStage # "options"
    /\ Ran("options") =>
          LET p == TemplateOption(in.options, "default").panic IN
          /\ p # <<>> =>
                /\ pc = "done" /\ exit = "options" /\ retErr = <<>>
                /\ rsp.results =
                     <<[severity |-> "FATAL",
                        message |-> <<LabelOptions,
                           <<"panic occurred while applying template options: ", p>>>>]>>
          /\ p = <<>> => exit # "options"

\* C2 witness: an unknown option after a valid one ended the run with the
\* fatal result.
C2_Witness ==
    /\ pc = "done" /\ exit = "options"
    /\ in.options = <<"missingkey=zero", "bogus">>

\* C3: when every one of the N rendered documents is a valid, non-empty
\* document, Decode is called for each of them in order and each is recorded
\* as one desired resource, N in all; and when a document fails to decode, no
\* document after it is decoded.
C3_EveryDocumentRecorded ==
    /\ (exit = "ok" /\ \A i \in 1..Len(data) :
                          data[i].kind = "map" /\ data[i].desired # "typeerror")
          => /\ decoded = 1..Len(data)
             /\ \A i \in 1..Len(data) : \E r \in rsp.resources : r.doc = i
             /\ Cardinality({r \in rsp.resources : r.doc # 0}) = Len(data)
    /\ exit = "decode" => \A i \in decoded : \A j \in 1..(i-1) : data[j].kind # "bad"

\* C4: every rendered document annotated gotemplating.fn.crossplane.io/ready
\* is recorded as a desired resource whose readiness is ready and whose body
\* holds neither controlling annotation.
C4_ReadyAnnotationApplied ==
    exit = "ok" =>
        \A i \in 1..Len(data) :
            annotationKeyReady \in data[i].annotations =>
                \E r \in rsp.resources :
                    /\ r.doc = i
                    /\ r.ready = "READY"
                    /\ r.annotations \cap ControlKeys = {}

\* C6: the first stage that fails ends the run: it is the last stage run, the
\* response holds exactly one fatal result, its message starts with that
\* stage's label, and the error returned is nil.
C6_FirstFailureEndsRun ==
    exit \notin {"none", "ok"} =>
        /\ pc = "done"
        /\ LastStage = exit
        /\ retErr = <<>>
        /\ ~rsp.nil
        /\ Cardinality(FatalResults(rsp)) = 1
        /\ \A i \in FatalResults(rsp) : rsp.results[i].message[1] = StageLabel(exit)

\* The order of the statements of RunFunction, options left out when
\* in.Options is nil.
CodeOrder(optionsSet) ==
    IF optionsSet
    THEN <<"input", "source", "parse", "options", "convert", "execute", "decode">>
    ELSE <<"input", "source", "parse", "convert", "execute", "decode">>

\* The position of a stage in the order Context Builder, Template Compiler
\* (parse, options), Template Executor, Document Decoder.
ClaimedPosition(stage) ==
    CASE stage = "convert" -> 1
      [] stage = "parse" -> 2
      [] stage = "options" -> 3
      [] stage = "execute" -> 4
      [] stage = "decode" -> 5
      [] OTHER -> 0

\* C8 as stated: the stages run in the order Context Builder, Template
\* Compiler (parse, then options), Template Executor, Document Decoder, so
\* the request map is built before the template is parsed.
C8_ContextBuiltFirst ==
    \A i, j \in 1..Len(trace) :
        i < j => ClaimedPosition(trace[i]) <= ClaimedPosition(trace[j])

\* C8 as amended: the stages run in the order Template Compiler (parse, then
\* options), Context Builder, Template Executor, Document Decoder: the stages
\* run are always a prefix of that order, a stage that failed is the last one
\* run, and options are applied after parse and before execute.
C8_CompilerThenContext ==
    /\ Len(trace) <= Len(CodeOrder(in.optionsSet))
    /\ \A i \in 1..Len(trace) : trace[i] = CodeOrder(in.optionsSet)[i]
    /\ exit \notin {"none", "ok"} => pc = "done" /\ LastStage = exit
    /\ pc \notin {"done", "panicked"} => exit = "none"

\* C8 witness: a run with options went through every stage.
C8_Witness ==
    /\ exit = "ok"
    /\ trace = <<"input", "source", "parse", "options", "convert", "execute", "decode">>

(***************************************************************************)
(* The helpers.                                                            *)
(***************************************************************************)
RunIdle ==
    /\ pc = "input"
    /\ req = [extraResources |-> "none", requiredResources |-> "none",
              hasDesired |-> FALSE, marshals |-> TRUE]
    /\ in = NoInput
    /\ tmpl = NoTemplate
    /\ reqMap = NoMap
    /\ data = <<>>
    /\ rsp = NilResponse
    /\ retErr = <<>>
    /\ trace = <<>>
    /\ decoded = {}
    /\ exit = "none"

\* The document cursor: any text, any start.
InitDoc ==
    /\ RunIdle
    /\ lines \in LineLists
    /\ origin \in 0..(MaxLines + 1)
    /\ cursor = origin
    /\ prev = origin
    /\ moved = 0
    /\ errText = <<>>
    /\ ctx = ZeroContext
    /\ hpc = "idle"

\* startLine = moveToNextDoc(lines, startLine), once per decoded document.
MoveNext ==
    /\ hpc = "idle"
    /\ moved <= Len(lines)
    /\ LET r == moveToNextDoc(lines, cursor) IN
       IF r.panic
       THEN /\ hpc' = "panicked"
            /\ UNCHANGED <<cursor, prev, moved>>
       ELSE /\ cursor' = r.value
            /\ prev' = cursor
            /\ moved' = moved + 1
            /\ UNCHANGED hpc
    /\ UNCHANGED <<lines, origin, errText, ctx, runVars>>

\* The document at the cursor fails to decode with the parser naming line r.
LocateDoc ==
    /\ hpc = "idle"
    /\ \E r \in 1..MaxLines :
          LET c == getYamlErrorContextFromErr(ParserError(r), cursor, lines) IN
          /\ errText' = ParserError(r)
          /\ ctx' = c.value
          /\ hpc' = IF c.panic THEN "panicked" ELSE "located"
    /\ UNCHANGED <<lines, origin, cursor, prev, moved, runVars>>

NextDoc ==
    \/ MoveNext
    \/ LocateDoc

SpecDoc == InitDoc /\ [][NextDoc]_vars

\* getYamlErrorContextFromErr on any error text, start line and lines.
InitLoc ==
    /\ RunIdle
    /\ lines \in LineLists
    /\ origin \in StartLines
    /\ cursor = origin
    /\ prev = origin
    /\ moved = 0
    /\ errText \in ErrTexts
    /\ ctx = ZeroContext
    /\ hpc = "idle"

Locate ==
    /\ hpc = "idle"
    /\ LET c == getYamlErrorContextFromErr(errText, cursor, lines) IN
       /\ ctx' = c.value
       /\ hpc' = IF c.panic THEN "panicked" ELSE "located"
    /\ UNCHANGED <<lines, origin, cursor, prev, moved, errText, runVars>>

NextLoc == Locate

SpecLoc == InitLoc /\ [][NextLoc]_vars

(***************************************************************************)
(* Properties of the helpers (specifications SpecDoc and SpecLoc), stated  *)
(* without the operators the helpers are modelled with.                    *)
(***************************************************************************)
\* A line whose content, trimmed of whitespace, is "---".
SeparatorLine(l) ==
    \E i \in 1..(Len(l) - 2) :
        /\ SubSeq(l, i, i + 2) = Separator
        /\ \A j \in 1..Len(l) : j \notin i..(i + 2) => l[j] = " "

SeparatorsAfter(c) == {i \in (c + 1)..Len(lines) : SeparatorLine(lines[i])}
Least(S) == CHOOSE i \in S : \A j \in S : i <= j

\* m is t without its leading and trailing spaces.
IsTrimOf(m, t) ==
    /\ m # <<>> => m[1] # " " /\ m[Len(m)] # " "
    /\ \E a \in 0..Len(t) :
          /\ a + Len(m) <= Len(t)
          /\ SubSeq(t, a + 1, a + Len(m)) = m
          /\ \A j \in 1..Len(t) : (j <= a \/ j > a + Len(m)) => t[j] = " "

\* The text starts with the phrase, one or more spaces, an optionally signed
\* run of digits and a colon.
ScanPattern(text) ==
    \E g \in 1..Len(text), sg \in 0..1, d \in 1..Len(text) :
        LET n == 1 + g + sg + d + 1 IN
        /\ n <= Len(text)
        /\ text[1] = Phrase
        /\ \A i \in 2..(1 + g) : text[i] = " "
        /\ sg = 1 => text[2 + g] \in {"+", "-"}
        /\ \A i \in (2 + g + sg)..(g + sg + d + 1) : IsDigit(text[i])
        /\ text[n] = ":"

\* The text starts with the literal "error converting YAML to JSON: yaml:
\* line r:".
LiteralPrefix(r) == <<Phrase, " ">> \o FormatInt(r) \o <<":">>
HasLiteralPrefix(text, r) ==
    /\ Len(LiteralPrefix(r)) <= Len(text)
    /\ SubSeq(text, 1, Len(LiteralPrefix(r))) = LiteralPrefix(r)
RelLines == (-9)..9

\* C7: getYamlErrorContextFromErr never fails, whatever the error text, the
\* start line (zero, negative, past the end) and the lines (none at all), and
\* for a text that does not match the pattern it returns the all-zero context.
C7_DegradesGracefully ==
    /\ hpc # "panicked"
    /\ (hpc = "located" /\ ~ScanPattern(errText)) => ctx = ZeroContext

\* C7 witness: a matching error whose absolute line falls before the first
\* line of an empty text was answered with the zero context.
C7_Witness ==
    /\ hpc = "located"
    /\ lines = <<>>
    /\ cursor = -1
    /\ HasLiteralPrefix(errText, -2)
    /\ ctx = ZeroContext

\* C9 as stated: for a text with the prefix for line r the context holds
\* RelLine r, AbsLine startLine + r and the trimmed rest of the text as
\* Message, and Context is the line at AbsLine when 1 <= AbsLine <= len(lines)
\* and alone is left empty otherwise.
C9_OnlyContextEmpty ==
    hpc = "located" =>
        \A r \in RelLines :
            HasLiteralPrefix(errText, r) =>
                LET abs == cursor + r
                    rest == SubSeq(errText, Len(LiteralPrefix(r)) + 1, Len(errText))
                IN /\ ctx.RelLine = r
                   /\ ctx.AbsLine = abs
                   /\ IsTrimOf(ctx.Message, rest)
                   /\ ctx.Context = IF abs >= 1 /\ abs <= Len(lines) THEN lines[abs] ELSE <<>>

\* C9 as amended: for a text with the prefix for line r, when
\* 1 <= startLine + r <= len(lines) the context holds RelLine r, AbsLine
\* startLine + r, the trimmed rest of the text as Message and the line at
\* AbsLine as Context; when startLine + r is outside those bounds the all-zero
\* context is returned.
C9_ZeroContextOutOfBounds ==
    hpc = "located" =>
        \A r \in RelLines :
            HasLiteralPrefix(errText, r) =>
                LET abs == cursor + r
                    rest == SubSeq(errText, Len(LiteralPrefix(r)) + 1, Len(errText))
                IN IF abs >= 1 /\ abs <= Len(lines)
                   THEN /\ ctx.RelLine = r
                        /\ ctx.AbsLine = abs
                        /\ IsTrimOf(ctx.Message, rest)
                        /\ ctx.Context = lines[abs]
                   ELSE ctx = ZeroContext

\* C9 witness: line 2 of a document starting after line 1 was located in a
\* three-line text, with the message trimmed.
C9_Witness ==
    /\ hpc = "located"
    /\ cursor = 1
    /\ HasLiteralPrefix(errText, 2)
    /\ Len(lines) = 3
    /\ ctx.AbsLine = 3
    /\ ctx.Context = lines[3]
    /\ ctx.Message = <<"m">>

\* C10 as stated: from a 1-based start, when a separator line lies strictly
\* after the start the cursor returned is a line strictly after the first such
\* separator, and otherwise it is the start; it is never smaller than the
\* start.
C10_PastTheSeparator ==
    (moved >= 1 /\ prev >= 1) =>
        /\ cursor >= prev
        /\ IF SeparatorsAfter(prev) # {}
           THEN cursor > Least(SeparatorsAfter(prev))
           ELSE cursor = prev

\* C10 as amended: from a 1-based start moveToNextDoc returns normally; when a
\* separator line lies strictly after the start the cursor returned is the
\* line number of the first such separator, and otherwise it is the start; it
\* is never smaller than the start, and after len(lines) applications no
\* separator lies after the cursor, so a further application returns it
\* unchanged.
C10_OnTheSeparator ==
    /\ origin >= 1 => hpc # "panicked"
    /\ (moved >= 1 /\ prev >= 1) =>
          /\ cursor >= prev
          /\ IF SeparatorsAfter(prev) # {}
             THEN cursor = Least(SeparatorsAfter(prev))
             ELSE cursor = prev
    /\ (origin >= 1 /\ moved >= Len(lines)) => SeparatorsAfter(cursor) = {}

\* C10 witness: from line 1 the cursor advanced twice, to the first and then
\* to the second separator.
C10_Witness ==
    /\ origin = 1
    /\ moved = 2
    /\ prev > origin
    /\ cursor > prev
    /\ SeparatorLine(lines[cursor])

\* The documents of the text: document 1 starts at line 1, document k at the
\* line after the (k-1)th separator line.
AllSeparators == {i \in 1..Len(lines) : SeparatorLine(lines[i])}
DocStart(k) ==
    IF k = 1 THEN 1
    ELSE 1 + CHOOSE i \in AllSeparators :
                 Cardinality({j \in AllSeparators : j < i}) = k - 2

\* Document k exists, the documents before it are not empty, and line r of
\* document k is a line of the text and of that document.
FailingDocument(k, r) ==
    /\ lines # <<>>
    /\ Cardinality(AllSeparators) >= k - 1
    /\ 1 \notin AllSeparators
    /\ \A i \in AllSeparators : i + 1 \notin AllSeparators
    /\ DocStart(k) + r - 1 <= Len(lines)
    /\ \A i \in DocStart(k)..(DocStart(k) + r - 1) : i \notin AllSeparators

\* C5: with the cursor started at line 1 and moved once per document decoded
\* before, the context for line r of the failing document k (k >= 1) holds
\* the number of that line in the full text as AbsLine and the line itself as
\* Context.
C5_AbsoluteLineOfOffendingLine ==
    (hpc = "located" /\ origin = 1) =>
        \A r \in 1..MaxLines :
            (errText = ParserError(r) /\ FailingDocument(moved + 1, r)) =>
                /\ ctx.AbsLine = DocStart(moved + 1) + r - 1
                /\ ctx.Context = lines[DocStart(moved + 1) + r - 1]

\* The same for the documents after the first one (k >= 2), which start after
\* a separator line.
C5_LaterDocuments ==
    (hpc = "located" /\ origin = 1 /\ moved >= 1) =>
        \A r \in 1..MaxLines :
            (errText = ParserError(r) /\ FailingDocument(moved + 1, r)) =>
                /\ ctx.AbsLine = DocStart(moved + 1) + r - 1
                /\ ctx.Context = lines[DocStart(moved + 1) + r - 1]

====
